---- MODULE Spec2Model ----
(***************************************************************************)
(* A model of the pipette library: the deferred-application wrapper        *)
(* (Pipette), the lazy combinators of funcs.py run as pull-driven          *)
(* iterator objects on a heap, and the Maybe monad.                        *)
(*                                                                         *)
(* Python objects are modelled as follows.  An iterable handed to a        *)
(* combinator is either a list value [t |-> "list", l |-> <<...>>], which  *)
(* iter() restarts every time, or a reference [t |-> "iter", id |-> k] to  *)
(* the single-pass iterator object heap[k], which iter() returns as is.    *)
(* Every iterator object carries fin (it has raised StopIteration or an    *)
(* error and is spent) and n (how many elements it has handed out).        *)
(***************************************************************************)
EXTENDS Integers, Sequences, FiniteSets, TLC

VARIABLES stages, heap, runs, inp, last

vars == <<stages, heap, runs, inp, last>>

\* ---------------------------------------------------------------- bounds
MaxVal == 2
MaxLen == 3
MaxN == 3

Vals == 0..MaxVal

RECURSIVE SeqsUpTo(_, _)
SeqsUpTo(S, k) ==
    IF k = 0 THEN {<<>>}
    ELSE LET shorter == SeqsUpTo(S, k - 1)
         IN shorter \cup {Append(s, x) : s \in {q \in shorter : Len(q) = k - 1}, x \in S}

\* ---------------------------------------------------------------- values
NoneV == [t |-> "none"]
IntV(k) == [t |-> "int", i |-> k]
StrV(s) == [t |-> "str", s |-> s]
ListV(xs) == [t |-> "list", l |-> xs]
IterRef(k) == [t |-> "iter", id |-> k]

\* isinstance(x, Iterable) and not isinstance(x, (str, bytes))
IsNested(x) == x.t \in {"list", "iter"}

\* ------------------------------------------------------- iterator objects
ListIter(xs) == [kind |-> "listiter", fin |-> FALSE, n |-> 0, data |-> xs, pos |-> 0]

Islice(it, start, stop) ==
    [kind |-> "islice", fin |-> FALSE, n |-> 0, it |-> it,
     next |-> start, stop |-> stop, cnt |-> 0]

GenExprDistinct(it) ==
    [kind |-> "distinct", fin |-> FALSE, n |-> 0, it |-> it, seen |-> {}]

MapObj(it, fn) == [kind |-> "map", fin |-> FALSE, n |-> 0, it |-> it, fn |-> fn]

FilterObj(it, fn) == [kind |-> "filter", fin |-> FALSE, n |-> 0, it |-> it, fn |-> fn]

Cycle(it) == [kind |-> "cycle", fin |-> FALSE, n |-> 0, it |-> it, saved |-> <<>>, idx |-> 0]

\* A generator object whose body has not started: it = 0 until the first next().
ChunkGen(iterable, size) ==
    [kind |-> "chunk", fin |-> FALSE, n |-> 0, src |-> iterable, it |-> 0, size |-> size]

FlattenGen(iterable) ==
    [kind |-> "flatten", fin |-> FALSE, n |-> 0, src |-> iterable, it |-> 0, sub |-> 0]

TraverseGen(iterable) ==
    [kind |-> "traverse", fin |-> FALSE, n |-> 0, src |-> iterable, it |-> 0, sub |-> 0]

InterleaveGen(iterables) ==
    [kind |-> "interleave", fin |-> FALSE, n |-> 0, srcs |-> iterables,
     started |-> FALSE, iterators |-> <<>>, snap |-> <<>>, i |-> 1]

RepeatForeverGen(iterable) ==
    [kind |-> "repeat_forever", fin |-> FALSE, n |-> 0, src |-> iterable, cyc |-> 0]

\* The callables handed to select and where.
ApplyFn(fn, x) ==
    CASE fn = "inc" -> x + 1
      [] fn = "double" -> 2 * x
      [] fn = "even" -> x % 2 = 0
      [] fn = "positive" -> x > 0

\* iter(x): a list gets a fresh list iterator, an iterator is returned as is.
Iter(h, x) ==
    IF x.t = "list"
    THEN [h |-> Append(h, ListIter(x.l)), id |-> Len(h) + 1]
    ELSE [h |-> h, id |-> x.id]

StopR(h) == [st |-> "stop", val |-> 0, h |-> h]
YieldR(h, v) == [st |-> "yield", val |-> v, h |-> h]

RECURSIVE Next(_, _)

ListIterNext(h, id) ==
    LET g == h[id]
    IN IF g.pos < Len(g.data)
       THEN YieldR([h EXCEPT ![id].pos = @ + 1], g.data[g.pos + 1])
       ELSE StopR(h)

\* itertools.islice with step 1; stop = -1 stands for None.
RECURSIVE IsliceNext(_, _)
IsliceNext(h, id) ==
    LET g == h[id]
    IN IF g.cnt < g.next
       THEN LET r == Next(h, g.it)
            IN IF r.st = "yield"
               THEN IsliceNext([r.h EXCEPT ![id].cnt = @ + 1], id)
               ELSE r
       ELSE IF g.stop # -1 /\ g.cnt >= g.stop
       THEN StopR(h)
       ELSE LET r == Next(h, g.it)
                nx == IF g.stop # -1 /\ g.next + 1 > g.stop THEN g.stop ELSE g.next + 1
            IN IF r.st = "yield"
               THEN YieldR([r.h EXCEPT ![id].cnt = @ + 1, ![id].next = nx], r.val)
               ELSE r

\* distinct remembering only the element it yielded last
RECURSIVE DistinctNextLastOnly(_, _)
DistinctNextLastOnly(h, id) ==
    LET g == h[id]
        r == Next(h, g.it)
    IN IF r.st # "yield" THEN r
       ELSE IF r.val \notin g.seen
       THEN YieldR([r.h EXCEPT ![id].seen = {r.val}], r.val)
       ELSE DistinctNextLastOnly(r.h, id)

\* (x for x in iterable if x not in seen and not seen.add(x))
RECURSIVE DistinctNext(_, _)
DistinctNext(h, id) ==
    LET g == h[id]
        r == Next(h, g.it)
    IN IF r.st # "yield" THEN r
       ELSE IF r.val \notin g.seen
       THEN YieldR([r.h EXCEPT ![id].seen = @ \cup {r.val}], r.val)
       ELSE DistinctNext(r.h, id)

\* builtins.map
MapNext(h, id) ==
    LET r == Next(h, h[id].it)
    IN IF r.st = "yield" THEN YieldR(r.h, ApplyFn(h[id].fn, r.val)) ELSE r

\* builtins.filter
RECURSIVE FilterNext(_, _)
FilterNext(h, id) ==
    LET r == Next(h, h[id].it)
    IN IF r.st # "yield" THEN r
       ELSE IF ApplyFn(h[id].fn, r.val) THEN r
       ELSE FilterNext(r.h, id)

\* list(itertools.islice(it, k)), appended to acc.
RECURSIVE Collect(_, _, _, _)
Collect(h, it, k, acc) ==
    IF k = 0 THEN YieldR(h, acc)
    ELSE LET r == Next(h, it)
         IN CASE r.st = "yield" -> Collect(r.h, it, k - 1, Append(acc, r.val))
              [] r.st = "stop" -> YieldR(r.h, acc)
              [] OTHER -> r

\* chunk dropping a final group that is not full
ChunkNextDropShort(h, id) ==
    LET g == h[id]
        a == IF g.it = 0 THEN Iter(h, g.src) ELSE [h |-> h, id |-> g.it]
        c == Collect([a.h EXCEPT ![id].it = a.id], a.id, g.size, <<>>)
    IN IF c.st # "yield" THEN c
       ELSE IF Len(c.val) < g.size THEN StopR(c.h)
       ELSE YieldR(c.h, ListV(c.val))

\* it = iter(iterable); while chunk := list(islice(it, size)): yield chunk
ChunkNext(h, id) ==
    LET g == h[id]
        a == IF g.it = 0 THEN Iter(h, g.src) ELSE [h |-> h, id |-> g.it]
        c == Collect([a.h EXCEPT ![id].it = a.id], a.id, g.size, <<>>)
    IN IF c.st # "yield" THEN c
       ELSE IF c.val = <<>> THEN StopR(c.h)
       ELSE YieldR(c.h, ListV(c.val))

\* for item in iterable: yield from item, or yield item
RECURSIVE FlattenNext(_, _)
FlattenNext(h, id) ==
    LET g == h[id]
    IN IF g.it = 0
       THEN LET a == Iter(h, g.src)
            IN FlattenNext([a.h EXCEPT ![id].it = a.id], id)
       ELSE IF g.sub # 0
       THEN LET r == Next(h, g.sub)
            IN IF r.st = "stop" THEN FlattenNext([r.h EXCEPT ![id].sub = 0], id)
               ELSE r
       ELSE LET r == Next(h, g.it)
            IN IF r.st # "yield" THEN r
               ELSE IF IsNested(r.val)
               THEN LET a == Iter(r.h, r.val)
                    IN FlattenNext([a.h EXCEPT ![id].sub = a.id], id)
               ELSE r

\* traverse flattening one level only
TraverseOneLevel(h, id) == FlattenNext(h, id)

\* for arg in iterable: yield from arg | traverse, or yield arg
RECURSIVE TraverseNext(_, _)
TraverseNext(h, id) ==
    LET g == h[id]
    IN IF g.it = 0
       THEN LET a == Iter(h, g.src)
            IN TraverseNext([a.h EXCEPT ![id].it = a.id], id)
       ELSE IF g.sub # 0
       THEN LET r == Next(h, g.sub)
            IN IF r.st = "stop" THEN TraverseNext([r.h EXCEPT ![id].sub = 0], id)
               ELSE r
       ELSE LET r == Next(h, g.it)
            IN IF r.st # "yield" THEN r
               ELSE IF IsNested(r.val)
               THEN LET h1 == Append(r.h, TraverseGen(r.val))
                    IN TraverseNext([h1 EXCEPT ![id].sub = Len(h1)], id)
               ELSE r

\* [iter(it) for it in iterables]
RECURSIVE IterAll(_, _, _)
IterAll(h, iterables, ids) ==
    IF iterables = <<>> THEN [h |-> h, ids |-> ids]
    ELSE LET a == Iter(h, Head(iterables))
         IN IterAll(a.h, Tail(iterables), Append(ids, a.id))

\* dropping every iterator when one is exhausted
RemoveEvery(s, x) == <<>>

\* list.remove(x): drops the first element equal to x.
RECURSIVE RemoveFirst(_, _)
RemoveFirst(s, x) ==
    IF s = <<>> THEN <<>>
    ELSE IF Head(s) = x THEN Tail(s)
    ELSE <<Head(s)>> \o RemoveFirst(Tail(s), x)

\* while iterators: for it in list(iterators): yield next(it), or remove it
RECURSIVE InterleaveNext(_, _)
InterleaveNext(h, id) ==
    LET g == h[id]
    IN IF ~g.started
       THEN LET a == IterAll(h, g.srcs, <<>>)
            IN InterleaveNext([a.h EXCEPT ![id].started = TRUE,
                                          ![id].iterators = a.ids], id)
       ELSE IF g.i > Len(g.snap)
       THEN IF g.iterators = <<>> THEN StopR(h)
            ELSE InterleaveNext([h EXCEPT ![id].snap = g.iterators, ![id].i = 1], id)
       ELSE LET it == g.snap[g.i]
                r == Next(h, it)
            IN CASE r.st = "yield" -> YieldR([r.h EXCEPT ![id].i = @ + 1], r.val)
                 [] r.st = "stop" ->
                      InterleaveNext([r.h EXCEPT ![id].iterators = RemoveFirst(@, it),
                                                 ![id].i = g.i + 1], id)
                 [] OTHER -> r

\* itertools.cycle: hands out the source once, saving it, then replays the copy.
CycleNext(h, id) ==
    LET g == h[id]
    IN IF g.idx = 0
       THEN LET r == Next(h, g.it)
            IN CASE r.st = "yield" -> YieldR([r.h EXCEPT ![id].saved = Append(@, r.val)], r.val)
                 [] r.st = "stop" ->
                      IF g.saved = <<>> THEN StopR(r.h)
                      ELSE YieldR([r.h EXCEPT ![id].idx = (1 % Len(g.saved)) + 1], g.saved[1])
                 [] OTHER -> r
       ELSE YieldR([h EXCEPT ![id].idx = (g.idx % Len(g.saved)) + 1], g.saved[g.idx])

\* continue_iter = itertools.cycle(iterable); while True: yield next(continue_iter)
RepeatForeverNext(h, id) ==
    LET g == h[id]
        a == Iter(h, g.src)
        h1 == IF g.cyc = 0
              THEN [Append(a.h, Cycle(a.id)) EXCEPT ![id].cyc = Len(a.h) + 1]
              ELSE h
        r == Next(h1, h1[id].cyc)
    IN IF r.st = "stop"
       THEN [st |-> "raise", val |-> "RuntimeError", h |-> r.h]
       ELSE r

Dispatch(h, id) ==
    CASE h[id].kind = "listiter" -> ListIterNext(h, id)
      [] h[id].kind = "islice" -> IsliceNext(h, id)
      [] h[id].kind = "distinct" -> DistinctNext(h, id)
      [] h[id].kind = "map" -> MapNext(h, id)
      [] h[id].kind = "filter" -> FilterNext(h, id)
      [] h[id].kind = "chunk" -> ChunkNext(h, id)
      [] h[id].kind = "flatten" -> FlattenNext(h, id)
      [] h[id].kind = "traverse" -> TraverseNext(h, id)
      [] h[id].kind = "interleave" -> InterleaveNext(h, id)
      [] h[id].kind = "cycle" -> CycleNext(h, id)
      [] h[id].kind = "repeat_forever" -> RepeatForeverNext(h, id)

\* next(heap[id]): a spent iterator stays spent.
Next(h, id) ==
    IF h[id].fin THEN StopR(h)
    ELSE LET r == Dispatch(h, id)
         IN IF r.st = "yield"
            THEN [r EXCEPT !.h[id].n = @ + 1]
            ELSE [r EXCEPT !.h[id].fin = TRUE]

\* ------------------------------------------------------------ combinators
\* take letting one element too many through
takeOneMore(h, iterable, n) ==
    LET a == Iter(h, iterable)
    IN [h |-> Append(a.h, Islice(a.id, 0, n + 1)), id |-> Len(a.h) + 1]

take(h, iterable, n) ==
    LET a == Iter(h, iterable)
    IN [h |-> Append(a.h, Islice(a.id, 0, n)), id |-> Len(a.h) + 1]

\* skip discarding one element too many
skipOneMore(h, iterable, n) ==
    LET a == Iter(h, iterable)
    IN [h |-> Append(a.h, Islice(a.id, n + 1, -1)), id |-> Len(a.h) + 1]

skip(h, iterable, n) ==
    LET a == Iter(h, iterable)
    IN [h |-> Append(a.h, Islice(a.id, n, -1)), id |-> Len(a.h) + 1]

RECURSIVE SeenSoFar(_, _)
SeenSoFar(h, k) ==
    IF k = 0 THEN {}
    ELSE (IF h[k].kind = "distinct" THEN h[k].seen ELSE {}) \cup SeenSoFar(h, k - 1)

\* distinct keeping one seen set for all its applications
distinctSharedSeen(h, iterable) ==
    LET a == Iter(h, iterable)
    IN [h |-> Append(a.h, [GenExprDistinct(a.id) EXCEPT !.seen = SeenSoFar(h, Len(h))]),
        id |-> Len(a.h) + 1]

distinct(h, iterable) ==
    LET a == Iter(h, iterable)
    IN [h |-> Append(a.h, GenExprDistinct(a.id)), id |-> Len(a.h) + 1]

select(h, iterable, selector) ==
    LET a == Iter(h, iterable)
    IN [h |-> Append(a.h, MapObj(a.id, selector)), id |-> Len(a.h) + 1]

where(h, iterable, predicate) ==
    LET a == Iter(h, iterable)
    IN [h |-> Append(a.h, FilterObj(a.id, predicate)), id |-> Len(a.h) + 1]

chunk(h, iterable, size) ==
    [h |-> Append(h, ChunkGen(iterable, size)), id |-> Len(h) + 1]

flatten(h, iterable) ==
    [h |-> Append(h, FlattenGen(iterable)), id |-> Len(h) + 1]

traverse(h, iterable) ==
    [h |-> Append(h, TraverseGen(iterable)), id |-> Len(h) + 1]

interleave(h, iterables) ==
    [h |-> Append(h, InterleaveGen(iterables)), id |-> Len(h) + 1]

repeat_forever(h, iterable) ==
    [h |-> Append(h, RepeatForeverGen(iterable)), id |-> Len(h) + 1]

\* ------------------------------------------------------------- traversals
\* A run is a consumer (a for loop, into(list)) pulling one iterator.
Run(id) == [it |-> id, out |-> <<>>, done |-> FALSE, err |-> ""]

Step(r) ==
    /\ r \in DOMAIN runs
    /\ ~runs[r].done
    /\ LET res == Next(heap, runs[r].it)
       IN /\ heap' = res.h
          /\ runs' = [runs EXCEPT ![r] =
                        CASE res.st = "yield" -> [@ EXCEPT !.out = Append(@, res.val)]
                          [] res.st = "stop" -> [@ EXCEPT !.done = TRUE]
                          [] OTHER -> [@ EXCEPT !.done = TRUE, !.err = res.val]]
    /\ UNCHANGED <<stages, inp, last>>

Pull == \E r \in DOMAIN runs : Step(r)

AllDone == runs # <<>> /\ \A r \in DOMAIN runs : runs[r].done

\* =============================================================== distinct
InitDistinct ==
    /\ inp \in [xs : SeqsUpTo(Vals, MaxLen)]
    /\ stages = <<>> /\ heap = <<>> /\ runs = <<>> /\ last = NoneV

\* xs | distinct and (xs + xs) | distinct
BuildDistinct ==
    /\ runs = <<>>
    /\ LET a == distinct(heap, ListV(inp.xs))
           b == distinct(a.h, ListV(inp.xs \o inp.xs))
       IN /\ heap' = b.h
          /\ runs' = <<Run(a.id), Run(b.id)>>
    /\ UNCHANGED <<stages, inp, last>>

NextDistinct == BuildDistinct \/ Pull

SpecDistinct == InitDistinct /\ [][NextDistinct]_vars

Range(s) == {s[i] : i \in DOMAIN s}

\* The values of xs in the order of their first occurrences.
RECURSIVE FirstOccurrences(_)
FirstOccurrences(xs) ==
    IF xs = <<>> THEN <<>>
    ELSE LET init == SubSeq(xs, 1, Len(xs) - 1)
             x == xs[Len(xs)]
         IN IF x \in Range(init) THEN FirstOccurrences(init)
            ELSE Append(FirstOccurrences(init), x)

\* C4: distinct(xs) holds each value of xs exactly once, in the order of the
\* first occurrences, and distinct(xs ++ xs) equals distinct(xs).
DistinctFirstOccurrenceIdempotent ==
    AllDone =>
        /\ runs[1].out = FirstOccurrences(inp.xs)
        /\ Range(runs[1].out) = Range(inp.xs)
        /\ Cardinality(Range(runs[1].out)) = Len(runs[1].out)
        /\ runs[2].out = runs[1].out

DistinctWitness ==
    /\ AllDone
    /\ Len(inp.xs) = 3
    /\ Len(runs[1].out) = 2
    /\ inp.xs[1] = inp.xs[3]

\* ============================================================ take / skip
\* The source is a list, or a single-pass iterator over the same elements.
InitTakeSkip ==
    /\ inp \in [xs : SeqsUpTo(Vals, MaxLen), n : 0..MaxN, kind : {"list", "iterator"}]
    /\ heap = IF inp.kind = "list" THEN <<>> ELSE <<ListIter(inp.xs)>>
    /\ stages = <<>> /\ runs = <<>> /\ last = NoneV

Source == IF inp.kind = "list" THEN ListV(inp.xs) ELSE IterRef(1)

\* a = xs | take(n); b = xs | skip(n)
BuildTakeSkip ==
    /\ runs = <<>>
    /\ LET a == take(heap, Source, inp.n)
           b == skip(a.h, Source, inp.n)
       IN /\ heap' = b.h
          /\ runs' = <<Run(a.id), Run(b.id)>>
    /\ UNCHANGED <<stages, inp, last>>

NextTakeSkip == BuildTakeSkip \/ Pull

SpecTakeSkip == InitTakeSkip /\ [][NextTakeSkip]_vars

Min(a, b) == IF a < b THEN a ELSE b

\* C5 as stated: take(xs, n) ++ skip(xs, n) is xs whatever source backs xs.
TakeSkipReconstructsAnySource ==
    AllDone =>
        /\ Len(runs[1].out) <= Min(inp.n, Len(inp.xs))
        /\ runs[1].out \o runs[2].out = inp.xs

\* C5 amended: take yields at most min(n, length) elements from any source,
\* and take ++ skip is xs when xs is a re-iterable source such as a list.
TakeSkipReconstructsList ==
    AllDone =>
        /\ Len(runs[1].out) <= Min(inp.n, Len(inp.xs))
        /\ inp.kind = "list" => runs[1].out \o runs[2].out = inp.xs

TakeSkipWitness ==
    /\ AllDone
    /\ inp.kind = "list"
    /\ inp.n = 2
    /\ Len(inp.xs) = 3
    /\ Len(runs[1].out) = 2
    /\ Len(runs[2].out) = 1

\* ========================================================= chunk / flatten
InitChunk ==
    /\ inp \in [xs : SeqsUpTo({IntV(v) : v \in Vals}, MaxLen), size : 1..MaxN]
    /\ stages = <<>> /\ heap = <<>> /\ runs = <<>> /\ last = NoneV

\* xs | chunk(size) and xs | chunk(size) | flatten
BuildChunk ==
    /\ runs = <<>>
    /\ LET a == chunk(heap, ListV(inp.xs), inp.size)
           b == chunk(a.h, ListV(inp.xs), inp.size)
           c == flatten(b.h, IterRef(b.id))
       IN /\ heap' = c.h
          /\ runs' = <<Run(a.id), Run(c.id)>>
    /\ UNCHANGED <<stages, inp, last>>

NextChunk == BuildChunk \/ Pull

SpecChunk == InitChunk /\ [][NextChunk]_vars

RECURSIVE Concat(_)
Concat(groups) ==
    IF groups = <<>> THEN <<>> ELSE Head(groups).l \o Concat(Tail(groups))

\* C6: every group but the last has size elements, the last has 1..size, none
\* is empty, and flattening the groups one level reproduces xs.
ChunkGroupsReconstruct ==
    AllDone =>
        LET groups == runs[1].out
        IN /\ \A k \in DOMAIN groups :
                /\ groups[k].t = "list"
                /\ Len(groups[k].l) >= 1
                /\ Len(groups[k].l) <= inp.size
                /\ k < Len(groups) => Len(groups[k].l) = inp.size
           /\ Concat(groups) = inp.xs
           /\ runs[2].out = inp.xs

ChunkWitness ==
    /\ AllDone
    /\ inp.size = 2
    /\ Len(inp.xs) = 3
    /\ Len(runs[1].out) = 2
    /\ Len(runs[1].out[2].l) = 1
    /\ Len(runs[2].out) = 3

\* ================================================================ laziness
Pipelines == {"select", "where", "take", "skip", "distinct", "chunk", "repeat_forever"}

InitLazy ==
    /\ inp \in [xs : SeqsUpTo(Vals, MaxLen) \ {<<>>}, n : 0..MaxN, pipe : Pipelines]
    /\ stages = <<>> /\ heap = <<>> /\ runs = <<>> /\ last = NoneV

\* xs | stage; the endless repeat_forever is bounded by take: xs | repeat_forever | take(n)
BuildLazy ==
    /\ runs = <<>>
    /\ LET xs == ListV(inp.xs)
           a == CASE inp.pipe = "select" -> select(heap, xs, "inc")
                  [] inp.pipe = "where" -> where(heap, xs, "even")
                  [] inp.pipe = "take" -> take(heap, xs, inp.n)
                  [] inp.pipe = "skip" -> skip(heap, xs, inp.n)
                  [] inp.pipe = "distinct" -> distinct(heap, xs)
                  [] inp.pipe = "chunk" -> chunk(heap, xs, inp.n + 1)
                  [] inp.pipe = "repeat_forever" ->
                        LET g == repeat_forever(heap, xs)
                        IN take(g.h, IterRef(g.id), inp.n)
       IN /\ heap' = a.h
          /\ runs' = <<Run(a.id)>>
    /\ UNCHANGED <<stages, inp, last>>

NextLazy == BuildLazy \/ Pull

SpecLazy == InitLazy /\ [][NextLazy]_vars

RECURSIVE SumPos(_, _)
SumPos(h, k) ==
    IF k = 0 THEN 0
    ELSE (IF h[k].kind = "listiter" THEN h[k].pos ELSE 0) + SumPos(h, k - 1)

\* How many elements have been pulled out of the source lists so far.
SourcePulls == SumPos(heap, Len(heap))

NoRequestYet == \A r \in DOMAIN runs : runs[r].out = <<>> /\ ~runs[r].done

Cycled(xs, n) == [i \in 1..n |-> xs[((i - 1) % Len(xs)) + 1]]

\* C9: building a chain of lazy stages pulls nothing from the source before
\* the consumer's first request, take(n) never pulls more than n elements
\* from its source, and repeat_forever(xs) | take(n) ends within n + 1
\* requests (each request of a run that is not done is answered, and the
\* output never grows past n) with the first n elements of the cycling.
LazyPullOnDemand ==
    /\ NoRequestYet => SourcePulls = 0
    /\ \A k \in DOMAIN heap :
          (heap[k].kind = "islice" /\ heap[k].stop # -1) =>
              /\ heap[heap[k].it].n <= inp.n
              /\ inp.pipe = "take" => SourcePulls <= inp.n
    /\ \A r \in DOMAIN runs :
          inp.pipe = "repeat_forever" =>
              /\ runs[r].err = ""
              /\ Len(runs[r].out) <= inp.n
              /\ runs[r].out = Cycled(inp.xs, Len(runs[r].out))
              /\ runs[r].done => runs[r].out = Cycled(inp.xs, inp.n)
              /\ SourcePulls <= Min(inp.n, Len(inp.xs))

LazyWitness ==
    /\ AllDone
    /\ inp.pipe = "repeat_forever"
    /\ Len(inp.xs) = 2
    /\ inp.n = 3
    /\ Len(runs[1].out) = 3

\* ============================================================== interleave
MaxSrc == 3

\* interleave never looks at an element, so source k holds the labels
\* <<k, 1>>, <<k, 2>>, ... and a label tells where an element came from.
Labelled(k, len) == [j \in 1..len |-> <<k, j>>]

InitInterleave ==
    /\ \E m \in 0..MaxSrc : \E lens \in [1..m -> 0..MaxLen] :
          inp = [seqs |-> [k \in 1..m |-> Labelled(k, lens[k])]]
    /\ stages = <<>> /\ heap = <<>> /\ runs = <<>> /\ last = NoneV

BuildInterleave ==
    /\ runs = <<>>
    /\ LET a == interleave(heap, [k \in DOMAIN inp.seqs |-> ListV(inp.seqs[k])])
       IN /\ heap' = a.h
          /\ runs' = <<Run(a.id)>>
    /\ UNCHANGED <<stages, inp, last>>

NextInterleave == BuildInterleave \/ Pull

SpecInterleave == InitInterleave /\ [][NextInterleave]_vars

RECURSIVE SelectSeq2(_, _)
\* The elements of s that source k contributed, in order.
SelectSeq2(s, k) ==
    IF s = <<>> THEN <<>>
    ELSE (IF Head(s)[1] = k THEN <<Head(s)>> ELSE <<>>) \o SelectSeq2(Tail(s), k)

RECURSIVE RoundOf(_, _, _)
\* Round r: element r of every source that has one, sources k.. in order.
RoundOf(seqs, r, k) ==
    IF k > Len(seqs) THEN <<>>
    ELSE (IF Len(seqs[k]) >= r THEN <<seqs[k][r]>> ELSE <<>>) \o RoundOf(seqs, r, k + 1)

RECURSIVE RoundRobin(_, _)
RoundRobin(seqs, r) ==
    IF \A k \in DOMAIN seqs : Len(seqs[k]) < r THEN <<>>
    ELSE RoundOf(seqs, r, 1) \o RoundRobin(seqs, r + 1)

IsPrefix(s, t) == Len(s) <= Len(t) /\ s = SubSeq(t, 1, Len(s))

\* C10: interleave yields round by round one element of each live source in
\* source order, drops exhausted sources, ends only when all are exhausted,
\* and hands out every element of every source once, in source order.
InterleaveRoundRobin ==
    \A r \in DOMAIN runs :
        /\ runs[r].err = ""
        /\ IsPrefix(runs[r].out, RoundRobin(inp.seqs, 1))
        /\ runs[r].done =>
              /\ runs[r].out = RoundRobin(inp.seqs, 1)
              /\ \A k \in DOMAIN inp.seqs : SelectSeq2(runs[r].out, k) = inp.seqs[k]
              /\ \A k \in DOMAIN heap :
                    heap[k].kind = "listiter" => heap[k].pos = Len(heap[k].data)

InterleaveWitness ==
    /\ AllDone
    /\ Len(inp.seqs) = 3
    /\ Len(inp.seqs[1]) = 1
    /\ Len(inp.seqs[2]) = 3
    /\ Len(inp.seqs[3]) = 2
    /\ runs[1].out = << <<1, 1>>, <<2, 1>>, <<3, 1>>, <<2, 2>>, <<3, 2>>, <<2, 3>> >>

\* ================================================================ traverse
MaxNodes == 4

Leafs == {IntV(1), StrV("ab")}

\* Nested structures by their number of nodes (leaves and lists).
RECURSIVE Trees(_)
RECURSIVE Forests(_)
Trees(n) ==
    IF n = 1 THEN Leafs \cup {ListV(<<>>)}
    ELSE {ListV(f) : f \in Forests(n - 1)}

Forests(n) ==
    IF n = 0 THEN {<<>>}
    ELSE UNION {{<<t>> \o f : t \in Trees(k), f \in Forests(n - k)} : k \in 1..n}

InitTraverse ==
    /\ inp \in [xs : UNION {Forests(n) : n \in 0..MaxNodes}]
    /\ stages = <<>> /\ heap = <<>> /\ runs = <<>> /\ last = NoneV

\* xs | traverse
BuildTraverse ==
    /\ runs = <<>>
    /\ LET a == traverse(heap, ListV(inp.xs))
       IN /\ heap' = a.h
          /\ runs' = <<Run(a.id)>>
    /\ UNCHANGED <<stages, inp, last>>

NextTraverse == BuildTraverse \/ Pull

SpecTraverse == InitTraverse /\ [][NextTraverse]_vars

RECURSIVE LeavesOf(_)
\* The scalar leaves, left to right, depth first; text is a scalar.
LeavesOf(xs) ==
    IF xs = <<>> THEN <<>>
    ELSE (IF Head(xs).t = "list" THEN LeavesOf(Head(xs).l) ELSE <<Head(xs)>>)
         \o LeavesOf(Tail(xs))

RECURSIVE Depth(_)
Depth(xs) ==
    IF xs = <<>> THEN 1
    ELSE LET d == IF Head(xs).t = "list" THEN 1 + Depth(Head(xs).l) ELSE 1
             e == Depth(Tail(xs))
         IN IF d > e THEN d ELSE e

RECURSIVE FoldLeft(_, _, _)
FoldLeft(func, acc, xs) ==
    IF xs = <<>> THEN acc
    ELSE FoldLeft(func,
                  CASE func = "add" -> acc + Head(xs)
                    [] func = "sub" -> acc - Head(xs),
                  Tail(xs))

\* reduce(iterable, func, initial=None); initial is NoneV when the caller
\* passed None and when the caller passed nothing.
reduce(xs, func, initial) ==
    IF initial # NoneV
    THEN [st |-> "return", val |-> IntV(FoldLeft(func, initial.i, xs))]
    ELSE IF xs = <<>>
    THEN [st |-> "raise", val |-> "TypeError"]
    ELSE [st |-> "return", val |-> IntV(FoldLeft(func, Head(xs), Tail(xs)))]

InitReduce ==
    /\ inp \in [xs : SeqsUpTo(Vals, MaxLen), func : {"add", "sub"},
                supplied : BOOLEAN, initial : {NoneV} \cup {IntV(v) : v \in Vals}]
    /\ ~inp.supplied => inp.initial = NoneV
    /\ stages = <<>> /\ heap = <<>> /\ runs = <<>> /\ last = NoneV

\* xs | reduce(func) or xs | reduce(func, initial)
CallReduce ==
    /\ last = NoneV
    /\ last' = reduce(inp.xs, inp.func, inp.initial)
    /\ UNCHANGED <<stages, heap, runs, inp>>

NextReduce == CallReduce

SpecReduce == InitReduce /\ [][NextReduce]_vars

\* C3: with an initial value supplied an empty sequence gives that value back
\* unchanged, for every initial value; with none supplied the first element
\* seeds the fold and an empty sequence raises the empty-sequence error.
ReduceSeedsWithInitial ==
    last # NoneV =>
        /\ (inp.supplied /\ inp.xs = <<>>) => last = [st |-> "return", val |-> inp.initial]
        /\ (inp.supplied /\ inp.initial # NoneV) =>
              last = [st |-> "return", val |-> IntV(FoldLeft(inp.func, inp.initial.i, inp.xs))]
        /\ (~inp.supplied /\ inp.xs = <<>>) => last.st = "raise"
        /\ (~inp.supplied /\ inp.xs # <<>>) =>
              last = [st |-> "return",
                      val |-> IntV(FoldLeft(inp.func, Head(inp.xs), Tail(inp.xs)))]

\* =================================================================== Maybe
MaxMaybeVal == 1

MaybeVals == 0..MaxMaybeVal

\* What a Maybe-producing callable returns for each argument.
Outcomes == {[tag |-> "Nothing"]} \cup {[tag |-> "Some", value |-> v] : v \in MaybeVals}

\* e.nid is the identity the next constructed object gets, e.calls counts the
\* invocations of callables.
Some(v, e) ==
    [res |-> [tag |-> "Some", value |-> v, id |-> e.nid], e |-> [e EXCEPT !.nid = @ + 1]]

Nothing(e) ==
    [res |-> [tag |-> "Nothing", id |-> e.nid], e |-> [e EXCEPT !.nid = @ + 1]]

RECURSIVE Call(_, _, _)
RECURSIVE bind(_, _, _)

\* bind calling func and returning self
SomeBindKeepsSelf(m, func, e) == [res |-> m, e |-> Call(func, m.value, e).e]

\* Some.bind: return func(self.value)
SomeBind(m, func, e) == Call(func, m.value, e)

\* Nothing.bind: return self
NothingBind(m, func, e) == [res |-> m, e |-> e]

\* Some.map: return Some(func(self.value))
SomeMap(m, func, e) ==
    LET c == Call(func, m.value, e)
    IN Some(c.res, c.e)

\* Nothing.map: return self
NothingMap(m, func, e) == [res |-> m, e |-> e]

bind(m, func, e) ==
    IF m.tag = "Some" THEN SomeBind(m, func, e) ELSE NothingBind(m, func, e)

map(m, func, e) ==
    IF m.tag = "Some" THEN SomeMap(m, func, e) ELSE NothingMap(m, func, e)

\* A callable is a table of outcomes (a Maybe-producing function), a plain
\* function, the constructor Some, or the closure lambda x: f(x).bind(g).
Call(func, v, e) ==
    LET e1 == [e EXCEPT !.calls = @ + 1]
    IN CASE func.k = "maybe" ->
              IF func.f[v].tag = "Some" THEN Some(func.f[v].value, e1) ELSE Nothing(e1)
         [] func.k = "plain" -> [res |-> ApplyFn(func.f, v), e |-> e1]
         [] func.k = "Some" -> Some(v, e1)
         [] func.k = "compose" ->
              LET c == Call(func.f, v, e1)
              IN bind(c.res, func.g, c.e)

InitMaybe ==
    /\ inp \in [m : Outcomes, v : MaybeVals,
                f : [MaybeVals -> Outcomes], g : [MaybeVals -> Outcomes],
                p : {"inc", "double"}]
    /\ stages = <<>> /\ heap = <<>> /\ runs = <<>> /\ last = NoneV

Env0 == [nid |-> 1, calls |-> 0]

TheM == IF inp.m.tag = "Some" THEN Some(inp.m.value, Env0) ELSE Nothing(Env0)
F == [k |-> "maybe", f |-> inp.f]
G == [k |-> "maybe", f |-> inp.g]

\* Some(v).bind(f) against f(v)
LeftIdentity ==
    /\ last = NoneV
    /\ LET m == Some(inp.v, Env0)
       IN last' = [law |-> "left", lhs |-> bind(m.res, F, m.e).res,
                   rhs |-> Call(F, inp.v, Env0).res]
    /\ UNCHANGED <<stages, heap, runs, inp>>

\* m.bind(Some) against m
RightIdentity ==
    /\ last = NoneV
    /\ last' = [law |-> "right", lhs |-> bind(TheM.res, [k |-> "Some"], TheM.e).res,
                rhs |-> TheM.res]
    /\ UNCHANGED <<stages, heap, runs, inp>>

\* m.bind(f).bind(g) against m.bind(lambda x: f(x).bind(g))
Associativity ==
    /\ last = NoneV
    /\ LET a == bind(TheM.res, F, TheM.e)
       IN last' = [law |-> "assoc", lhs |-> bind(a.res, G, a.e).res,
                   rhs |-> bind(TheM.res, [k |-> "compose", f |-> F, g |-> G], TheM.e).res]
    /\ UNCHANGED <<stages, heap, runs, inp>>

\* m.map(p) and m.bind(f), with the number of invocations each made
MapAndBind ==
    /\ last = NoneV
    /\ LET a == map(TheM.res, [k |-> "plain", f |-> inp.p], TheM.e)
           b == bind(TheM.res, F, TheM.e)
       IN last' = [law |-> "short", m |-> TheM.res, mapped |-> a.res, bound |-> b.res,
                   mapCalls |-> a.e.calls, bindCalls |-> b.e.calls]
    /\ UNCHANGED <<stages, heap, runs, inp>>

NextMaybe == LeftIdentity \/ RightIdentity \/ Associativity \/ MapAndBind

SpecMaybe == InitMaybe /\ [][NextMaybe]_vars

\* Two Maybe objects are equal as values: same variant, same payload.
SameMaybe(a, b) == a.tag = b.tag /\ (a.tag = "Some" => a.value = b.value)

\* C8: the three monad laws hold (left identity, right identity,
\* associativity), and on Nothing map and bind return that Nothing and never
\* invoke the function.
MonadLaws ==
    last # NoneV =>
        /\ last.law \in {"left", "right", "assoc"} => SameMaybe(last.lhs, last.rhs)
        /\ (last.law = "short" /\ last.m.tag = "Nothing") =>
              /\ last.mapped = last.m /\ last.bound = last.m
              /\ last.mapCalls = 0 /\ last.bindCalls = 0
        /\ (last.law = "short" /\ last.m.tag = "Some") =>
              /\ last.mapped.tag = "Some" /\ last.mapped.value = ApplyFn(inp.p, last.m.value)
              /\ SameMaybe(last.bound, inp.f[last.m.value])

MonadWitness ==
    /\ last # NoneV
    /\ last.law = "assoc"
    /\ inp.m.tag = "Some"
    /\ inp.f[inp.m.value].tag = "Some"
    /\ last.lhs.tag = "Some"
    /\ last.lhs.value # inp.m.value

\* ================================================================= Pipette
MaxBinds == 4
MaxStages == 3
MaxRuns == 2

\* Pipette.__init__
Pipette(func, args, kwargs) == [func |-> func, args |-> args, kwargs |-> kwargs]

NoKwargs == [k \in {} |-> 0]

\* Pipette(self.func, *self.args, *args, **self.kwargs, **kwargs): a call
\* with a keyword given twice, or with a keyword named like a parameter that
\* is already filled positionally, raises TypeError.
PipetteCall(self, args, kwargs) ==
    IF \/ DOMAIN self.kwargs \cap DOMAIN kwargs # {}
       \/ "func" \in DOMAIN self.kwargs \cup DOMAIN kwargs
    THEN [st |-> "raise", val |-> "TypeError"]
    ELSE [st |-> "return",
          val |-> Pipette(self.func, self.args \o args,
                          [k \in DOMAIN self.kwargs \cup DOMAIN kwargs |->
                              IF k \in DOMAIN kwargs THEN kwargs[k] ELSE self.kwargs[k]])]

\* Pipette.__ror__: self.func(other, *self.args, **self.kwargs), for the
\* functions distinct(iterable) and take(iterable, n).
PipetteRor(self, other, h) ==
    CASE self.func = "distinct" /\ self.args = <<>> /\ self.kwargs = NoKwargs ->
            LET a == distinct(h, other) IN [st |-> "return", h |-> a.h, id |-> a.id]
      [] self.func = "take" /\ Len(self.args) = 1 /\ self.kwargs = NoKwargs ->
            LET a == take(h, other, self.args[1]) IN [st |-> "return", h |-> a.h, id |-> a.id]
      [] self.func = "take" /\ self.args = <<>> /\ DOMAIN self.kwargs = {"n"} ->
            LET a == take(h, other, self.kwargs["n"]) IN [st |-> "return", h |-> a.h, id |-> a.id]
      [] OTHER -> [st |-> "raise", h |-> h, id |-> 0]

\* The module-level stages: distinct = pipette(distinct), take = pipette(take).
InitStage ==
    /\ stages = <<Pipette("distinct", <<>>, NoKwargs), Pipette("take", <<>>, NoKwargs)>>
    /\ heap = <<>> /\ runs = <<>> /\ inp = NoneV /\ last = NoneV

\* stage(*args, **kwargs): a new stage, or an exception and no stage
Bind(s, args, kwargs) ==
    /\ LET r == PipetteCall(stages[s], args, kwargs)
       IN stages' = IF r.st = "return" THEN Append(stages, r.val) ELSE stages
    /\ UNCHANGED <<heap, runs, inp>>

\* xs | stage
Apply(s, xs) ==
    /\ LET r == PipetteRor(stages[s], ListV(xs), heap)
       IN /\ heap' = r.h
          /\ runs' = IF r.st = "return"
                     THEN Append(runs, [it |-> r.id, out |-> <<>>, done |-> FALSE,
                                        err |-> "", stage |-> s, src |-> xs])
                     ELSE runs
    /\ UNCHANGED <<stages, inp>>

\* ------------------------------------------------- binding, with its outcome
BindArgs == {<<>>} \cup {<<v>> : v \in 1..MaxN}

BindKwargs == UNION {[D -> 1..MaxN] : D \in SUBSET {"n", "key"}}

\* A bind whose arguments and outcome the caller sees.
BindObserved ==
    /\ Len(stages) < MaxBinds
    /\ \E s \in DOMAIN stages, args \in BindArgs, kwargs \in BindKwargs :
          /\ Bind(s, args, kwargs)
          /\ last' = [self |-> s, args |-> args, kwargs |-> kwargs,
                      st |-> PipetteCall(stages[s], args, kwargs).st]

NextBind == BindObserved

SpecBind == InitStage /\ [][NextBind]_vars

\* ------------------------------------------- stages shared by traversals
StageBinds == {<<<<>>, NoKwargs>>, <<<<1>>, NoKwargs>>, <<<<2>>, NoKwargs>>,
               <<<<>>, [k \in {"n"} |-> 2]>>}

StageSources == {<<0, 0>>, <<1, 0>>, <<0, 1, 0>>}

BindStage ==
    /\ Len(stages) < MaxStages
    /\ \E s \in DOMAIN stages, b \in StageBinds : Bind(s, b[1], b[2])
    /\ UNCHANGED last

ApplyStage ==
    /\ Len(runs) < MaxRuns
    /\ \E s \in DOMAIN stages, xs \in StageSources : Apply(s, xs)
    /\ UNCHANGED last

NextStage == BindStage \/ ApplyStage \/ Pull

SpecStage == InitStage /\ [][NextStage]_vars

\* C1: a bind never fails and returns a new stage holding the receiver's
\* positional arguments followed by the new ones, and the named arguments
\* merged, a newly supplied value overriding one already bound.
BindConcatenatesAndMerges ==
    last # NoneV =>
        LET new == stages[Len(stages)]
            self == stages[last.self]
        IN /\ last.st = "return"
           /\ new.func = self.func
           /\ new.args = self.args \o last.args
           /\ DOMAIN new.kwargs = DOMAIN self.kwargs \cup DOMAIN last.kwargs
           /\ \A k \in DOMAIN new.kwargs :
                 new.kwargs[k] = IF k \in DOMAIN last.kwargs THEN last.kwargs[k]
                                 ELSE self.kwargs[k]

RECURSIVE Drain(_, _, _)
\* list(heap[id]) on heap h
Drain(h, id, acc) ==
    LET r == Next(h, id)
    IN IF r.st = "yield" THEN Drain(r.h, id, Append(acc, r.val)) ELSE acc

\* What a stage built afresh gives for xs when nothing else is going on.
FreshResult(stage, xs) ==
    LET r == PipetteRor(Pipette(stage.func, stage.args, stage.kwargs), ListV(xs), <<>>)
    IN Drain(r.h, r.id, <<>>)

StagesUntouched ==
    /\ Len(stages') >= Len(stages)
    /\ \A i \in DOMAIN stages : stages'[i] = stages[i]

RunsMatchFresh ==
    \A r \in DOMAIN runs :
        /\ runs[r].err = ""
        /\ IsPrefix(runs[r].out, FreshResult(stages[runs[r].stage], runs[r].src))
        /\ runs[r].done => runs[r].out = FreshResult(stages[runs[r].stage], runs[r].src)

\* C2: no Bind and no Apply changes an existing stage, and a stage applied to
\* several sequences, their traversals interleaved or not, gives each the
\* result a fresh stage gives it alone.
StageReusable == [][StagesUntouched]_vars /\ []RunsMatchFresh

StageWitness ==
    /\ Len(runs) = 2
    /\ runs[1].stage = 1 /\ runs[2].stage = 1
    /\ runs[1].src = <<0, 0>> /\ runs[2].src = <<1, 0>>
    /\ runs[1].out = <<0>> /\ runs[2].out = <<1, 0>>
    /\ ~runs[1].done /\ runs[2].done
    /\ Len(stages) > 2

====
